---------------------------- MODULE Spec2Model ----------------------------
(***************************************************************************)
(* Receipt field extraction (Backend/app/services/receipt_parser.py), the  *)
(* deterministic policy engine (Backend/app/services/policy_engine.py) and *)
(* the submission endpoint (Backend/app/api/submission.py) of Expense-AI.  *)
(*                                                                         *)
(* Python str values are TLA+ strings (Len, \o and SubSeq act on them      *)
(* character by character).  Optional[str] is <<>> for None and <<s>> for  *)
(* a string s.  Confidences and money amounts are integers counting        *)
(* hundredths (0.75 is 75, 31.44 is 3144).                                 *)
(***************************************************************************)
EXTENDS Integers, Sequences, FiniteSets, TLC

VARIABLES fn, pc, receipt_id, text, lines, words, fields, issues, result,
          req, session, db

vars == <<fn, pc, receipt_id, text, lines, words, fields, issues, result,
          req, session, db>>

\* no request to /submission/create, no open session, empty tables
NoSubmission ==
    /\ req = <<>>
    /\ session = <<>>
    /\ db = [submissions |-> <<>>, audit_events |-> <<>>, commits |-> 0]

(***************************************************************************)
(* Python string primitives                                                *)
(***************************************************************************)
Char(s, i) == SubSeq(s, i, i)

Digits == {"0", "1", "2", "3", "4", "5", "6", "7", "8", "9"}

UpperCase == "ABCDEFGHIJKLMNOPQRSTUVWXYZ"

LowerCase == "abcdefghijklmnopqrstuvwxyz"

Letters == {Char(UpperCase, i) : i \in 1..26} \cup {Char(LowerCase, i) : i \in 1..26}

\* \s of the re module, on the characters the inputs use
WhiteSpace == {" ", "\t", "\n"}

\* \w of the re module: \b is a change between \w and not-\w
WordChars == Letters \cup Digits \cup {"_"}

IsDigit(c) == c \in Digits

IsLetter(c) == c \in Letters

IsSpace(c) == c \in WhiteSpace

\* str.lower() on one character
LowerChar(c) ==
    IF \E i \in 1..26 : Char(UpperCase, i) = c
    THEN Char(LowerCase, CHOOSE i \in 1..26 : Char(UpperCase, i) = c)
    ELSE c

RECURSIVE LowerFrom(_, _)
LowerFrom(s, i) ==
    IF i > Len(s) THEN "" ELSE LowerChar(Char(s, i)) \o LowerFrom(s, i + 1)

\* str.lower()
Lower(s) == LowerFrom(s, 1)

\* sub in s
Contains(sub, s) ==
    \E i \in 1..(Len(s) - Len(sub) + 1) : SubSeq(s, i, i + Len(sub) - 1) = sub

\* str.replace(",", ".")
RECURSIVE ReplaceCommaFrom(_, _)
ReplaceCommaFrom(s, i) ==
    IF i > Len(s) THEN ""
    ELSE (IF Char(s, i) = "," THEN "." ELSE Char(s, i)) \o ReplaceCommaFrom(s, i + 1)

ReplaceComma(s) == ReplaceCommaFrom(s, 1)

\* str.strip(): the longest substring with no white space at either end
Strip(s) ==
    LET keep == {i \in 1..Len(s) : ~IsSpace(Char(s, i))}
    IN  IF keep = {} THEN ""
        ELSE SubSeq(s, CHOOSE i \in keep : \A j \in keep : i <= j,
                       CHOOSE i \in keep : \A j \in keep : i >= j)

\* re.sub(r"\s+", " ", s): every run of white space becomes one space
RECURSIVE CollapseFrom(_, _)
CollapseFrom(s, i) ==
    IF i > Len(s) THEN ""
    ELSE IF IsSpace(Char(s, i))
         THEN (IF i > 1 /\ IsSpace(Char(s, i - 1)) THEN "" ELSE " ")
              \o CollapseFrom(s, i + 1)
         ELSE Char(s, i) \o CollapseFrom(s, i + 1)

CollapseSpaces(s) == CollapseFrom(s, 1)

\* re.sub(r"\s+", "", s)
RECURSIVE RemoveSpacesFrom(_, _)
RemoveSpacesFrom(s, i) ==
    IF i > Len(s) THEN ""
    ELSE (IF IsSpace(Char(s, i)) THEN "" ELSE Char(s, i)) \o RemoveSpacesFrom(s, i + 1)

RemoveSpaces(s) == RemoveSpacesFrom(s, 1)

\* value of a decimal digit
DigitVal(c) == CHOOSE n \in 0..9 : Char("0123456789", n + 1) = c

\* int of a string of digits ("" is 0)
RECURSIVE DigitsToInt(_)
DigitsToInt(s) ==
    IF Len(s) = 0 THEN 0
    ELSE 10 * DigitsToInt(SubSeq(s, 1, Len(s) - 1)) + DigitVal(Char(s, Len(s)))

\* str of a natural number
RECURSIVE IntToStr(_)
IntToStr(n) ==
    IF n < 10 THEN Char("0123456789", n + 1)
    ELSE IntToStr(n \div 10) \o Char("0123456789", (n % 10) + 1)

AllDigits(s) == \A i \in 1..Len(s) : IsDigit(Char(s, i))

(***************************************************************************)
(* float(s) for decimal strings: an optional sign, digits, at most one     *)
(* ".", no white space, no exponent (the inputs use no other form).  ok is *)
(* FALSE where float raises ValueError.  The value is neg, hundredths (its *)
(* magnitude times 100, truncated) and rest (TRUE when a digit beyond the  *)
(* second fraction digit is not 0).                                        *)
(***************************************************************************)
ParseFloat(s) ==
    LET neg  == Len(s) > 0 /\ Char(s, 1) = "-"
        body == IF Len(s) > 0 /\ Char(s, 1) \in {"-", "+"} THEN SubSeq(s, 2, Len(s)) ELSE s
        dots == {i \in 1..Len(body) : Char(body, i) = "."}
        dot  == IF dots = {} THEN Len(body) + 1 ELSE CHOOSE i \in dots : TRUE
        ip   == SubSeq(body, 1, dot - 1)
        fp   == SubSeq(body, dot + 1, Len(body))
        f2   == SubSeq(fp \o "00", 1, 2)
        ok   == /\ Cardinality(dots) <= 1
                /\ AllDigits(ip) /\ AllDigits(fp)
                /\ Len(ip) + Len(fp) > 0
    IN  IF ok
        THEN [ok |-> TRUE, neg |-> neg,
              hundredths |-> 100 * DigitsToInt(ip) + DigitsToInt(f2),
              rest |-> \E i \in 3..Len(fp) : Char(fp, i) # "0"]
        ELSE [ok |-> FALSE, neg |-> FALSE, hundredths |-> 0, rest |-> FALSE]

\* x > limit and x < limit for a parsed float x and a limit in hundredths (limit >= 0)
FloatGreater(x, limit) ==
    ~x.neg /\ (x.hundredths > limit \/ (x.hundredths = limit /\ x.rest))

\* mutant: <= in place of <
FloatLessOrEqual(x, limit) ==
    IF x.neg THEN TRUE ELSE x.hundredths < limit \/ (x.hundredths = limit /\ ~x.rest)

FloatLess(x, limit) ==
    IF x.neg THEN x.hundredths > 0 \/ x.rest \/ limit > 0 ELSE x.hundredths < limit

\* f"{x:.2f}" of a non-negative amount given in hundredths
Format2f(h) ==
    IntToStr(h \div 100) \o "." \o IntToStr((h % 100) \div 10) \o IntToStr(h % 10)

\* truthiness of an Optional[str]: None and "" are falsy
Truthy(opt) == opt # <<>> /\ opt[1] # ""

(***************************************************************************)
(* policy_engine.py                                                        *)
(*                                                                         *)
(* A FieldMap (a dict, which keeps insertion order) is a sequence of       *)
(* entries [key, value, confidence] with distinct keys.  value is the      *)
(* Optional[str] under "value" (<<>>: no such key).  confidence is the     *)
(* JSON value under "confidence": [kind |-> "absent"],                     *)
(* [kind |-> "number", n |-> hundredths] or [kind |-> "string", s |-> str].*)
(***************************************************************************)
CONF_THRESHOLD == 75

MEAL_LIMIT == 2000

\* mutant: category is not required
REQUIRED_FIELDS_NoCategory == <<"merchant", "date", "total", "currency">>

REQUIRED_FIELDS == <<"merchant", "date", "total", "currency", "category">>

MEAL_CATEGORIES == {"meals", "meal", "food"}

FALLBACK_SUMMARY == "Policy rule triggered. See rule definition repository."

RULE_SUMMARIES ==
    ("POL-REQ-001" :> "A required expense field (such as merchant, date, total, currency, or category) is missing.")
    @@ ("POL-REQ-002" :> "A receipt image is required for this type of expense.")
    @@ ("POL-CONF-100" :> "The extracted value has low confidence and requires user review.")
    @@ ("POL-PARSE-101" :> "The amount could not be reliably parsed from the receipt text.")
    @@ ("POL-LIM-010" :> "Meal expenses above the standard limit require justification or attendees.")
    @@ ("POL-LIM-020" :> "The total expense exceeds the allowed daily limit.")
    @@ ("POL-DATE-030" :> "The expense date falls outside the allowed submission period.")
    @@ ("POL-JUST-040" :> "A business purpose is required for reimbursement.")
    @@ ("POL-CAT-050" :> "The selected category may not match the detected merchant type.")
    @@ ("POL-DUP-060" :> "This expense may be a duplicate of a previously submitted expense.")

issue(field, severity, rule_id, message) ==
    [field |-> field, severity |-> severity, rule_id |-> rule_id, message |-> message]

\* fields.get(f, {}): the entry under key f, or an empty dict
HasKey(fm, f) == \E i \in 1..Len(fm) : fm[i].key = f

FieldEntry(fm, f) ==
    IF HasKey(fm, f)
    THEN fm[CHOOSE i \in 1..Len(fm) : fm[i].key = f]
    ELSE [key |-> f, value |-> <<>>, confidence |-> [kind |-> "absent"]]

\* mutant: no "rid in seen" test, every issue gets its own entry
RECURSIVE AttachNoDedup(_, _, _, _)
AttachNoDedup(iss, i, seen, out) ==
    IF i > Len(iss) THEN out
    ELSE LET rid == iss[i].rule_id
         IN  IF rid = ""
             THEN AttachNoDedup(iss, i + 1, seen, out)
             ELSE AttachNoDedup(iss, i + 1, seen \cup {rid},
                     Append(out,
                       IF rid \in DOMAIN RULE_SUMMARIES /\ RULE_SUMMARIES[rid] # ""
                       THEN [rule_id |-> rid, summary |-> RULE_SUMMARIES[rid]]
                       ELSE [rule_id |-> rid, summary |-> FALLBACK_SUMMARY]))

\* the loop body of attach_rule_summaries, issue by issue; an issue with no
\* rule_id (None) or an empty one has rule_id ""
RECURSIVE AttachFrom(_, _, _, _)
AttachFrom(iss, i, seen, out) ==
    IF i > Len(iss) THEN out
    ELSE LET rid == iss[i].rule_id
         IN  IF rid = "" \/ rid \in seen
             THEN AttachFrom(iss, i + 1, seen, out)
             ELSE AttachFrom(iss, i + 1, seen \cup {rid},
                     Append(out,
                       IF rid \in DOMAIN RULE_SUMMARIES /\ RULE_SUMMARIES[rid] # ""
                       THEN [rule_id |-> rid, summary |-> RULE_SUMMARIES[rid]]
                       ELSE [rule_id |-> rid, summary |-> FALLBACK_SUMMARY]))

attach_rule_summaries(iss) == AttachFrom(iss, 1, {}, <<>>)

\* 1) Required fields
RECURSIVE RequiredFrom(_, _)
RequiredFrom(fm, k) ==
    IF k > Len(REQUIRED_FIELDS) THEN <<>>
    ELSE LET f == REQUIRED_FIELDS[k]
         IN  (IF ~Truthy(FieldEntry(fm, f).value)
              THEN <<issue(f, "FAIL", "POL-REQ-001", f \o " is required.")>>
              ELSE <<>>)
             \o RequiredFrom(fm, k + 1)

RequiredIssues(fm) == RequiredFrom(fm, 1)

\* float(v.get("confidence", 0)), 0.0 when it raises
ConfidenceOf(c) ==
    CASE c.kind = "absent" -> [ok |-> TRUE, neg |-> FALSE, hundredths |-> 0, rest |-> FALSE]
      [] c.kind = "number" -> [ok |-> TRUE, neg |-> c.n < 0,
                               hundredths |-> IF c.n < 0 THEN 0 - c.n ELSE c.n,
                               rest |-> FALSE]
      [] OTHER -> IF ParseFloat(c.s).ok THEN ParseFloat(c.s)
                  ELSE [ok |-> TRUE, neg |-> FALSE, hundredths |-> 0, rest |-> FALSE]

\* 2) Confidence-based review, over fields.items() in dict order
RECURSIVE ConfidenceFrom(_, _)
ConfidenceFrom(fm, i) ==
    IF i > Len(fm) THEN <<>>
    ELSE LET f    == fm[i].key
             conf == ConfidenceOf(fm[i].confidence)
         IN  (IF FloatLess(conf, CONF_THRESHOLD)
              THEN <<issue(f, "WARN", "POL-CONF-100",
                           f \o " confidence below threshold ("
                             \o (IF conf.neg THEN "-" ELSE "") \o Format2f(conf.hundredths)
                             \o ").")>>
              ELSE <<>>)
             \o ConfidenceFrom(fm, i + 1)

\* mutant: the last entry of the dict is not reviewed
ConfidenceIssuesSkipLast(fm) ==
    ConfidenceFrom(IF fm = <<>> THEN <<>> ELSE SubSeq(fm, 1, Len(fm) - 1), 1)

ConfidenceIssues(fm) == ConfidenceFrom(fm, 1)

\* fields.get("category", {}).get("value", "")
CategoryValue(fm) ==
    IF FieldEntry(fm, "category").value = <<>> THEN "" ELSE FieldEntry(fm, "category").value[1]

\* mutant: the comma is not replaced
TotalValueNoReplace(fm) ==
    IF FieldEntry(fm, "total").value = <<>> THEN "0" ELSE FieldEntry(fm, "total").value[1]

\* str(fields.get("total", {}).get("value", "0")).replace(",", ".")
TotalValue(fm) ==
    ReplaceComma(IF FieldEntry(fm, "total").value = <<>> THEN "0"
                 ELSE FieldEntry(fm, "total").value[1])

\* 3) meals limit
MealIssues(fm) ==
    IF Lower(CategoryValue(fm)) \in MEAL_CATEGORIES
    THEN LET total == ParseFloat(TotalValue(fm))
         IN  IF total.ok
             THEN IF FloatGreater(total, MEAL_LIMIT)
                  THEN <<issue("total", "FAIL", "POL-LIM-010",
                               "Meals exceed 20 EUR without justification/attendees.")>>
                  ELSE <<>>
             ELSE <<issue("total", "WARN", "POL-PARSE-101",
                          "Could not parse total amount reliably.")>>
    ELSE <<>>

\* mutant: WARN is tested before FAIL
AggregateWarnFirst(iss) ==
    IF \E i \in 1..Len(iss) : iss[i].severity = "WARN" THEN "WARN"
    ELSE IF \E i \in 1..Len(iss) : iss[i].severity = "FAIL" THEN "FAIL"
    ELSE "PASS"

\* 4) Compliance aggregation
Aggregate(iss) ==
    IF \E i \in 1..Len(iss) : iss[i].severity = "FAIL" THEN "FAIL"
    ELSE IF \E i \in 1..Len(iss) : iss[i].severity = "WARN" THEN "WARN"
    ELSE "PASS"

RuleIdsOf(summaries) == [i \in 1..Len(summaries) |-> summaries[i].rule_id]

validate_policy(rid, fm) ==
    LET iss == RequiredIssues(fm) \o ConfidenceIssues(fm) \o MealIssues(fm)
        rs  == attach_rule_summaries(iss)
    IN  [receipt_id |-> rid,
         compliance |-> Aggregate(iss),
         issues |-> iss,
         rule_summaries |-> rs,
         metadata |-> [confidence_threshold |-> CONF_THRESHOLD,
                       rules_triggered |-> RuleIdsOf(rs)]]

(***************************************************************************)
(* receipt_parser.py: _find_date                                           *)
(*                                                                         *)
(* The three date patterns are one matcher: a run of firstLen digits, a    *)
(* separator, two digits, a separator, a run of digits whose length is the *)
(* first of lastLens that fits, with \b on both sides; spaced allows \s*   *)
(* around each separator.  A (value, confidence) tuple is <<value,         *)
(* confidence>>.                                                           *)
(***************************************************************************)
DATE_SEPARATORS == {".", "/", "-"}

DigitsAt(s, i, n) ==
    /\ i + n - 1 <= Len(s)
    /\ \A k \in i..(i + n - 1) : IsDigit(Char(s, k))

\* \s*: the first position from i on that holds no white space
RECURSIVE SkipSpaces(_, _)
SkipSpaces(s, i) ==
    IF i <= Len(s) /\ IsSpace(Char(s, i)) THEN SkipSpaces(s, i + 1) ELSE i

\* \b before a word character at i, and after a word character at e
BoundaryBefore(s, i) == i = 1 \/ Char(s, i - 1) \notin WordChars

BoundaryAfter(s, e) == e = Len(s) \/ Char(s, e + 1) \notin WordChars

\* \d{lo,hi} followed by \b, greedy: the lengths of lastLens in order
RECURSIVE LastRunEnd(_, _, _, _)
LastRunEnd(s, i, lastLens, k) ==
    IF k > Len(lastLens) THEN 0
    ELSE IF DigitsAt(s, i, lastLens[k]) /\ BoundaryAfter(s, i + lastLens[k] - 1)
         THEN i + lastLens[k] - 1
         ELSE LastRunEnd(s, i, lastLens, k + 1)

\* the end of the match that starts at i, 0 when there is none
DateMatchEnd(s, i, firstLen, spaced, lastLens) ==
    LET skip(j) == IF spaced THEN SkipSpaces(s, j) ELSE j
        a == skip(i + firstLen)
        b == skip(a + 1)
        c == skip(b + 2)
        d == skip(c + 1)
    IN  IF /\ DigitsAt(s, i, firstLen) /\ BoundaryBefore(s, i)
           /\ a <= Len(s) /\ Char(s, a) \in DATE_SEPARATORS
           /\ DigitsAt(s, b, 2)
           /\ c <= Len(s) /\ Char(s, c) \in DATE_SEPARATORS
        THEN LastRunEnd(s, d, lastLens, 1)
        ELSE 0

\* re.search: group(1) of the leftmost match, None when nothing matches
DateSearch(s, firstLen, spaced, lastLens) ==
    LET starts == {i \in 1..Len(s) : DateMatchEnd(s, i, firstLen, spaced, lastLens) # 0}
    IN  IF starts = {} THEN <<>>
        ELSE LET i == CHOOSE x \in starts : \A y \in starts : x <= y
             IN  <<SubSeq(s, i, DateMatchEnd(s, i, firstLen, spaced, lastLens))>>

\* r"\b(\d{4}\s*[./-]\s*\d{2}\s*[./-]\s*\d{2})\b"
SpacedDateSearch(s) == DateSearch(s, 4, TRUE, <<2>>)

\* DATE_REGEXES[0]: r"\b(\d{4}[./-]\d{2}[./-]\d{2})\b"
IsoDateSearch(s) == DateSearch(s, 4, FALSE, <<2>>)

\* DATE_REGEXES[1]: r"\b(\d{2}[./-]\d{2}[./-]\d{2,4})\b"
DayFirstDateSearch(s) == DateSearch(s, 2, FALSE, <<4, 3, 2>>)

_find_date(s) ==
    IF SpacedDateSearch(s) # <<>> THEN <<RemoveSpaces(SpacedDateSearch(s)[1]), 80>>
    ELSE IF IsoDateSearch(s) # <<>> THEN <<IsoDateSearch(s)[1], 75>>
    ELSE IF DayFirstDateSearch(s) # <<>> THEN <<DayFirstDateSearch(s)[1], 75>>
    ELSE <<"", 30>>

(***************************************************************************)
(* receipt_parser.py: _find_total                                          *)
(***************************************************************************)
LAST_N_LINES == 30

\* the end of the digit run that starts at i
RECURSIVE DigitRunEnd(_, _)
DigitRunEnd(s, i) ==
    IF i < Len(s) /\ IsDigit(Char(s, i + 1)) THEN DigitRunEnd(s, i + 1) ELSE i

\* re.finditer(AMOUNT_REGEX, s) with AMOUNT_REGEX = r"([0-9]+[.,][0-9]{2})":
\* the matches from position i on, left to right, not overlapping
RECURSIVE AmountMatchesFrom(_, _)
AmountMatchesFrom(s, i) ==
    IF i > Len(s) THEN <<>>
    ELSE IF IsDigit(Char(s, i))
         THEN LET j == DigitRunEnd(s, i)
              IN  IF /\ j + 1 <= Len(s) /\ Char(s, j + 1) \in {".", ","}
                     /\ DigitsAt(s, j + 2, 2)
                  THEN <<SubSeq(s, i, j + 3)>> \o AmountMatchesFrom(s, j + 4)
                  ELSE AmountMatchesFrom(s, i + 1)
         ELSE AmountMatchesFrom(s, i + 1)

AmountMatches(s) == AmountMatchesFrom(s, 1)

\* _extract_amount_on_lines: from line k up to the first line; avoid is <<>>
\* for no avoid_keyword
RECURSIVE ExtractAmountFrom(_, _, _, _)
ExtractAmountFrom(ls, k, key, avoid) ==
    IF k < 1 THEN <<>>
    ELSE LET low     == Lower(ls[k])
             matches == AmountMatches(ReplaceComma(ls[k]))
         IN  IF /\ Contains(key, low)
                /\ ~(avoid # <<>> /\ avoid[1] # "" /\ Contains(avoid[1], low))
                /\ matches # <<>>
             THEN <<matches[Len(matches)]>>
             ELSE ExtractAmountFrom(ls, k - 1, key, avoid)

_extract_amount_on_lines(ls, keyword, avoid_keyword) ==
    ExtractAmountFrom(ls, Len(ls), Lower(keyword),
                      IF avoid_keyword = <<>> THEN <<>> ELSE <<Lower(avoid_keyword[1])>>)

\* re.sub(r"[^0-9.]", "", s)
RECURSIVE KeepDigitsAndDotsFrom(_, _)
KeepDigitsAndDotsFrom(s, i) ==
    IF i > Len(s) THEN ""
    ELSE (IF IsDigit(Char(s, i)) \/ Char(s, i) = "." THEN Char(s, i) ELSE "")
         \o KeepDigitsAndDotsFrom(s, i + 1)

_normalize_amount(s) ==
    IF s = "" THEN "" ELSE KeepDigitsAndDotsFrom(ReplaceComma(Strip(s)), 1)

\* _extract_all_amounts: the amounts, as floats, of the last last_n_lines lines
RECURSIVE AllAmountsFrom(_, _)
AllAmountsFrom(ls, k) ==
    IF k > Len(ls) THEN <<>>
    ELSE LET ms == AmountMatches(ReplaceComma(ls[k]))
         IN  [i \in 1..Len(ms) |-> ParseFloat(ms[i]).hundredths] \o AllAmountsFrom(ls, k + 1)

_extract_all_amounts(ls, last_n_lines) ==
    AllAmountsFrom(ls, IF Len(ls) > last_n_lines THEN Len(ls) - last_n_lines + 1 ELSE 1)

\* max(amounts)
MaxOf(nums) == CHOOSE x \in {nums[i] : i \in 1..Len(nums)} : \A i \in 1..Len(nums) : nums[i] <= x

(***************************************************************************)
(* abs(t - expected) > 1.0 with expected = st + tx, all binary64.  For     *)
(* amounts with two decimals the outcome is that of the decimal values     *)
(* unless they differ by exactly 1.00: then the rounding of the operands   *)
(* decides.  Binary64AboveOne lists the triples <<t, st, tx>> (hundredths) *)
(* of the amounts the inputs use, 1.00 apart, for which binary64 yields a  *)
(* difference above 1.0: 16.10 - (13.00 + 2.10) is 1.0000000000000018,     *)
(* while 192.00 - (170.00 + 21.00) is 1.0.                                 *)
(***************************************************************************)
Binary64AboveOne == {<<1610, 1300, 210>>}

\* mutant: the difference is taken without abs
FarFromExpectedNoAbs(t, st, tx) == t - (st + tx) > 100

FarFromExpected(t, st, tx) ==
    LET diff == IF t >= st + tx THEN t - (st + tx) ELSE (st + tx) - t
    IN  IF diff = 100 THEN <<t, st, tx>> \in Binary64AboveOne ELSE diff > 100

\* mutant: "balance due" is tried before "amount due"
FoundTotalBalanceFirst(ls) ==
    LET byTotal   == _extract_amount_on_lines(ls, "total", <<"sub">>)
        byBalance == IF byTotal = <<>> THEN _extract_amount_on_lines(ls, "balance due", <<>>)
                     ELSE byTotal
    IN  IF byBalance = <<>> THEN _extract_amount_on_lines(ls, "amount due", <<>>)
        ELSE byBalance

\* total: "total" avoiding "sub", else "amount due", else "balance due"
FoundTotal(ls) ==
    LET byTotal  == _extract_amount_on_lines(ls, "total", <<"sub">>)
        byAmount == IF byTotal = <<>> THEN _extract_amount_on_lines(ls, "amount due", <<>>)
                    ELSE byTotal
    IN  IF byAmount = <<>> THEN _extract_amount_on_lines(ls, "balance due", <<>>)
        ELSE byAmount

\* subtotal: "sub total", else "subtotal"
FoundSubtotal(ls) ==
    LET bySub == _extract_amount_on_lines(ls, "sub total", <<>>)
    IN  IF bySub = <<>> THEN _extract_amount_on_lines(ls, "subtotal", <<>>) ELSE bySub

FoundTax(ls) == _extract_amount_on_lines(ls, "tax", <<>>)

_find_total(ls) ==
    LET total     == FoundTotal(ls)
        subtotal  == FoundSubtotal(ls)
        tax       == FoundTax(ls)
        total_n    == IF total # <<>> THEN _normalize_amount(total[1]) ELSE ""
        subtotal_n == IF subtotal # <<>> THEN _normalize_amount(subtotal[1]) ELSE ""
        tax_n      == IF tax # <<>> THEN _normalize_amount(tax[1]) ELSE ""
        st == ParseFloat(subtotal_n)
        tx == ParseFloat(tax_n)
        t  == ParseFloat(total_n)
        amounts == _extract_all_amounts(ls, LAST_N_LINES)
    IN  IF /\ subtotal_n # "" /\ tax_n # ""
           /\ st.ok /\ tx.ok /\ (total_n # "" => t.ok)
        THEN IF total_n # ""
             THEN IF FarFromExpected(t.hundredths, st.hundredths, tx.hundredths)
                  THEN <<Format2f(st.hundredths + tx.hundredths), 70>>
                  ELSE <<Format2f(t.hundredths), 80>>
             ELSE <<Format2f(st.hundredths + tx.hundredths), 65>>
        ELSE IF total_n # ""
             THEN IF t.ok THEN <<Format2f(t.hundredths), 80>> ELSE <<total_n, 60>>
             ELSE IF amounts # <<>> THEN <<Format2f(MaxOf(amounts)), 50>>
                  ELSE <<"", 30>>

(***************************************************************************)
(* receipt_parser.py: _clean_line, _is_noise_line, _avg_conf,              *)
(* _find_merchant                                                          *)
(*                                                                         *)
(* An OCR word is [text, conf], conf in hundredths (-100 is the sentinel   *)
(* -1.0).  A float that is a mean of confidences is the fraction           *)
(* [num, den] of hundredths.                                               *)
(***************************************************************************)
NOISE_PREFIXES ==
    {"duplicate", "copy", "merchant copy", "customer copy",
     "thank you", "tax invoice", "invoice", "receipt"}

MERCHANT_SCAN_LINES == 12

MERCHANT_TOKENS == 4

_clean_line(s) == CollapseSpaces(Strip(s))

_is_noise_line(line) ==
    LET low == Lower(line)
    IN  IF Len(low) < 3 THEN TRUE ELSE \E q \in NOISE_PREFIXES : Contains(q, low)

\* str.split(): the maximal runs of characters that are not white space
RECURSIVE SplitFrom(_, _)
SplitFrom(s, i) ==
    IF i > Len(s) THEN <<>>
    ELSE IF IsSpace(Char(s, i)) THEN SplitFrom(s, i + 1)
    ELSE LET ends == {j \in i..Len(s) : j = Len(s) \/ IsSpace(Char(s, j + 1))}
             e    == CHOOSE j \in ends : \A k \in ends : j <= k
         IN  <<SubSeq(s, i, e)>> \o SplitFrom(s, e + 1)

Split(s) == SplitFrom(s, 1)

\* xs[:n]
Take(xs, n) == SubSeq(xs, 1, IF Len(xs) < n THEN Len(xs) ELSE n)

RECURSIVE SumOf(_)
SumOf(nums) == IF nums = <<>> THEN 0 ELSE Head(nums) + SumOf(Tail(nums))

\* the confidences of the words whose lowered text is a token, in word order
RECURSIVE MatchedFrom(_, _, _)
MatchedFrom(ws, token_set, i) ==
    IF i > Len(ws) THEN <<>>
    ELSE (IF Lower(ws[i].text) \in token_set /\ ws[i].conf >= 0 THEN <<ws[i].conf>> ELSE <<>>)
         \o MatchedFrom(ws, token_set, i + 1)

_avg_conf(ws, tokens) ==
    IF tokens = <<>> THEN [num |-> 0, den |-> 1]
    ELSE LET token_set == {Lower(tokens[i]) : i \in {j \in 1..Len(tokens) : tokens[j] # ""}}
             matched   == MatchedFrom(ws, token_set, 1)
         IN  IF matched = <<>> THEN [num |-> 50, den |-> 1]
             ELSE [num |-> SumOf(matched), den |-> Len(matched)]

\* len(re.sub(r"\D", "", l))
DigitCount(s) == Cardinality({i \in 1..Len(s) : IsDigit(Char(s, i))})

\* re.search(r"[A-Za-z]", l)
HasLetter(s) == \E i \in 1..Len(s) : IsLetter(Char(s, i))

\* re.sub(r"^[^A-Za-z]+", "", s): s from its first letter on
StripLeadingNonLetters(s) ==
    LET at == {i \in 1..Len(s) : IsLetter(Char(s, i))}
    IN  IF at = {} THEN "" ELSE SubSeq(s, CHOOSE i \in at : \A j \in at : i <= j, Len(s))

\* the loop of _find_merchant over lines[:12], from line k on
RECURSIVE CandidatesFrom(_, _)
CandidatesFrom(ls, k) ==
    IF k > Len(ls) \/ k > MERCHANT_SCAN_LINES THEN <<>>
    ELSE LET l == _clean_line(ls[k])
         IN  (IF /\ l # "" /\ ~_is_noise_line(l)
                 /\ ~(DigitCount(l) >= 6 /\ Len(l) > 8)
                 /\ HasLetter(l)
              THEN <<l>> ELSE <<>>)
             \o CandidatesFrom(ls, k + 1)

\* mutant: the lower limit 0.4 is not applied
ClampUpperOnly(c) == IF c.num > 95 * c.den THEN [num |-> 95, den |-> 1] ELSE c

\* mutant: the upper limit 0.95 is not applied
ClampLowerOnly(c) == IF c.num < 40 * c.den THEN [num |-> 40, den |-> 1] ELSE c

\* max(0.4, min(conf, 0.95))
Clamp(c) ==
    LET upper == IF c.num > 95 * c.den THEN [num |-> 95, den |-> 1] ELSE c
    IN  IF upper.num < 40 * upper.den THEN [num |-> 40, den |-> 1] ELSE upper

(***************************************************************************)
(* round(conf, 2), in hundredths.  For a mean exactly half way between two *)
(* hundredths the binary64 value decides (it lies a little below or above  *)
(* the half, or on it, and round goes to the even digit).  Binary64HalfUp  *)
(* lists the half-way means <<num, den>> the inputs produce that round up: *)
(* (0.90 + 0.67) / 2 is 0.78500000000000003 in binary64 and rounds to 0.79.*)
(***************************************************************************)
Binary64HalfUp == {<<157, 2>>}

Round2(c) ==
    LET q == c.num \div c.den
        r == c.num % c.den
    IN  IF 2 * r < c.den THEN q
        ELSE IF 2 * r > c.den THEN q + 1
        ELSE IF <<c.num, c.den>> \in Binary64HalfUp THEN q + 1 ELSE q

_find_merchant(ls, ws) ==
    LET candidates == CandidatesFrom(ls, 1)
        merchant   == Strip(StripLeadingNonLetters(candidates[1]))
        conf       == Clamp(_avg_conf(ws, Take(Split(merchant), MERCHANT_TOKENS)))
    IN  IF candidates = <<>>
        THEN <<IF ls # <<>> THEN ls[1] ELSE "", 40>>
        ELSE <<merchant, Round2(conf)>>

(***************************************************************************)
(* Inputs of the policy engine                                             *)
(***************************************************************************)
MaxIssues == 3

Num(n) == [kind |-> "number", n |-> n]

Str(x) == [kind |-> "string", s |-> x]

NoConfidence == [kind |-> "absent"]

Field(v, c) == <<[value |-> v, confidence |-> c]>>

\* what a FieldMap may hold under each key; <<>>: the key is not in the map
FieldChoices ==
    [merchant : {<<>>, Field(<<"ACME">>, Num(75)), Field(<<"">>, Num(74))},
     date     : {Field(<<"2013-11-03">>, Num(75)), Field(<<>>, NoConfidence),
                 Field(<<"">>, Str("0.80"))},
     total    : {<<>>, Field(<<"25.00">>, Num(80)), Field(<<"20.00">>, Num(80)),
                 Field(<<"20,01">>, Num(74)), Field(<<"12.5">>, Num(80)),
                 Field(<<"abc">>, Num(80)), Field(<<"">>, Num(30)),
                 Field(<<>>, Num(80))},
     currency : {Field(<<"EUR">>, Num(60)), Field(<<"EUR">>, Num(90)),
                 Field(<<"">>, Str("high"))},
     category : {<<>>, Field(<<"Meals">>, Num(100)), Field(<<"meal">>, Num(20)),
                 Field(<<"FOOD">>, Num(75)), Field(<<"Uncategorized">>, Num(20)),
                 Field(<<"Travel">>, Num(75)), Field(<<"">>, Num(75))},
     notes    : {<<>>, Field(<<"x">>, NoConfidence), Field(<<"x">>, Num(100))}]

\* the insertion orders of the dict
KeyOrders ==
    {<<"merchant", "date", "total", "currency", "category", "notes">>,
     <<"notes", "category", "currency", "total", "date", "merchant">>}

RECURSIVE MakeFieldMap(_, _, _)
MakeFieldMap(order, choice, i) ==
    IF i > Len(order) THEN <<>>
    ELSE (IF choice[order[i]] = <<>> THEN <<>>
          ELSE <<[key |-> order[i], value |-> choice[order[i]][1].value,
                  confidence |-> choice[order[i]][1].confidence]>>)
         \o MakeFieldMap(order, choice, i + 1)

FieldMaps == {MakeFieldMap(o, c, 1) : o \in KeyOrders, c \in FieldChoices}

SomeIssues ==
    {issue("total", "FAIL", "POL-REQ-001", "total is required."),
     issue("date", "WARN", "POL-CONF-100", "date confidence below threshold (0.30)."),
     issue("total", "WARN", "POL-CONF-100", "total confidence below threshold (0.50)."),
     issue("total", "FAIL", "POL-XYZ-999", "unknown rule"),
     issue("date", "WARN", "", "no rule id")}

RECURSIVE SeqsUpTo(_, _)
SeqsUpTo(S, n) ==
    IF n = 0 THEN {<<>>}
    ELSE SeqsUpTo(S, n - 1)
         \cup {Append(q, x) : q \in {r \in SeqsUpTo(S, n - 1) : Len(r) = n - 1}, x \in S}

IssueLists == SeqsUpTo(SomeIssues, MaxIssues)

(***************************************************************************)
(* The policy engine as a state machine: a call is chosen in the initial   *)
(* state, the action runs the function and stores what it returns.         *)
(***************************************************************************)
InitPolicy ==
    /\ pc = "call"
    /\ result = <<>>
    /\ NoSubmission
    /\ text = ""
    /\ lines = <<>>
    /\ words = <<>>
    /\ \/ /\ fn = "validate_policy"
          /\ receipt_id = "r_0a1b2c3d"
          /\ fields \in FieldMaps
          /\ issues = <<>>
       \/ /\ fn = "attach_rule_summaries"
          /\ receipt_id = ""
          /\ fields = <<>>
          /\ issues \in IssueLists

ValidatePolicy ==
    /\ fn = "validate_policy"
    /\ pc = "call"
    /\ result' = validate_policy(receipt_id, fields)
    /\ pc' = "return"
    /\ UNCHANGED <<fn, receipt_id, text, lines, words, fields, issues, req, session, db>>

AttachRuleSummaries ==
    /\ fn = "attach_rule_summaries"
    /\ pc = "call"
    /\ result' = attach_rule_summaries(issues)
    /\ pc' = "return"
    /\ UNCHANGED <<fn, receipt_id, text, lines, words, fields, issues, req, session, db>>

NextPolicy == ValidatePolicy \/ AttachRuleSummaries

SpecPolicy == InitPolicy /\ [][NextPolicy]_vars

Returned(f) == fn = f /\ pc = "return"

(***************************************************************************)
(* Claims about the policy engine                                          *)
(***************************************************************************)
\* how many issues name this field and this rule with this severity
IssueCount(iss, field, severity, rule_id) ==
    Cardinality({i \in 1..Len(iss) : /\ iss[i].field = field
                                     /\ iss[i].severity = severity
                                     /\ iss[i].rule_id = rule_id})

\* how many issues carry this rule, whatever the field and severity
RuleCount(iss, rule_id) == Cardinality({i \in 1..Len(iss) : iss[i].rule_id = rule_id})

HasSeverity(iss, severity) == \E i \in 1..Len(iss) : iss[i].severity = severity

\* C1: the compliance of a validate_policy result is FAIL iff some issue is
\* FAIL, WARN iff no issue is FAIL and some issue is WARN, and PASS iff the
\* issues list is empty.
C1_ComplianceAggregation ==
    Returned("validate_policy") =>
        /\ result.compliance = "FAIL" <=> HasSeverity(result.issues, "FAIL")
        /\ result.compliance = "WARN" <=>
              (~HasSeverity(result.issues, "FAIL") /\ HasSeverity(result.issues, "WARN"))
        /\ result.compliance = "PASS" <=> result.issues = <<>>

\* a result holding both a FAIL and a WARN issue: FAIL dominates
C1_Witness ==
    /\ Returned("validate_policy")
    /\ HasSeverity(result.issues, "FAIL")
    /\ HasSeverity(result.issues, "WARN")
    /\ result.compliance = "FAIL"

\* the field is not in the map, or has no value, or an empty one
MissingOrEmpty(fm, f) ==
    \A i \in 1..Len(fm) : fm[i].key = f => fm[i].value \in {<<>>, <<"">>}

RequiredNames == {"merchant", "date", "total", "currency", "category"}

\* C4: for each of merchant, date, total, currency, category, validate_policy
\* emits exactly one issue (field, FAIL, POL-REQ-001) when the field is absent
\* or empty and none otherwise, POL-REQ-001 names no other field or severity,
\* and a missing field makes the compliance FAIL.
C4_RequiredFields ==
    Returned("validate_policy") =>
        /\ \A f \in RequiredNames :
              IssueCount(result.issues, f, "FAIL", "POL-REQ-001")
                 = (IF MissingOrEmpty(fields, f) THEN 1 ELSE 0)
        /\ RuleCount(result.issues, "POL-REQ-001")
              = Cardinality({f \in RequiredNames : MissingOrEmpty(fields, f)})
        /\ (\E f \in RequiredNames : MissingOrEmpty(fields, f)) => result.compliance = "FAIL"

\* total is in the map with an empty value and category is not in the map
C4_Witness ==
    /\ Returned("validate_policy")
    /\ \E i \in 1..Len(fields) : fields[i].key = "total" /\ fields[i].value = <<"">>
    /\ ~HasKey(fields, "category")
    /\ ~MissingOrEmpty(fields, "merchant")
    /\ IssueCount(result.issues, "total", "FAIL", "POL-REQ-001") = 1
    /\ IssueCount(result.issues, "category", "FAIL", "POL-REQ-001") = 1

\* index of the first issue carrying this rule_id
FirstIssue(iss, rid) ==
    CHOOSE i \in 1..Len(iss) : iss[i].rule_id = rid /\ \A j \in 1..(i - 1) : iss[j].rule_id # rid

\* summaries is the evidence of iss: one entry for each distinct rule_id of
\* iss (an issue with no rule_id has none), in the order of first occurrence,
\* each with the catalog's summary or, for a rule_id the catalog does not
\* hold, the fallback summary
EvidenceOf(summaries, iss) ==
    /\ \A a, b \in 1..Len(summaries) : a # b => summaries[a].rule_id # summaries[b].rule_id
    /\ {summaries[a].rule_id : a \in 1..Len(summaries)}
          = {iss[i].rule_id : i \in 1..Len(iss)} \ {""}
    /\ \A a, b \in 1..Len(summaries) :
          a < b => FirstIssue(iss, summaries[a].rule_id) < FirstIssue(iss, summaries[b].rule_id)
    /\ \A a \in 1..Len(summaries) :
          summaries[a].summary =
             (IF summaries[a].rule_id \in DOMAIN RULE_SUMMARIES
              THEN RULE_SUMMARIES[summaries[a].rule_id]
              ELSE FALLBACK_SUMMARY)

\* C5: rule_summaries holds exactly one entry for each distinct rule_id of
\* issues, in first-occurrence order; metadata.rules_triggered is the
\* sequence of their rule_ids; a rule_id that is not in the catalog gets an
\* entry with the fallback summary.
C5_RuleSummaries ==
    /\ Returned("validate_policy") =>
          /\ EvidenceOf(result.rule_summaries, result.issues)
          /\ Len(result.metadata.rules_triggered) = Len(result.rule_summaries)
          /\ \A a \in 1..Len(result.rule_summaries) :
                result.metadata.rules_triggered[a] = result.rule_summaries[a].rule_id
    /\ Returned("attach_rule_summaries") => EvidenceOf(result, issues)

\* two issues share a rule_id and a third carries one the catalog lacks
C5_Witness ==
    /\ Returned("attach_rule_summaries")
    /\ \E i, j \in 1..Len(issues) : i < j /\ issues[i].rule_id = issues[j].rule_id
                                          /\ issues[i].rule_id = "POL-CONF-100"
    /\ \E i \in 1..Len(issues) : issues[i].rule_id = "POL-XYZ-999"
    /\ \E a \in 1..Len(result) : result[a].summary = FALLBACK_SUMMARY
    /\ Len(result) = 2

\* the confidence counts as below 0.75: a number below 0.75, or no number at
\* all (0 is then used), or a string that is no number or one below 0.75
BelowThreshold(c) ==
    \/ c.kind = "absent"
    \/ c.kind = "number" /\ c.n < 75
    \/ c.kind = "string" /\ c.s \notin {"0.75", "0.80", "0.9", "1", "1.0"}

\* C7: validate_policy emits exactly one issue (field, WARN, POL-CONF-100)
\* for each field of the map whose confidence is below 0.75 (an unparseable
\* one counts as 0.0), none for a field at 0.75 or above, and none for a
\* name that is not in the map; when the five fields have values, every
\* confidence is at least 0.75 and the category is no meal category, issues
\* is empty and the compliance is PASS.
C7_ConfidenceRule ==
    Returned("validate_policy") =>
        /\ \A i \in 1..Len(fields) :
              IssueCount(result.issues, fields[i].key, "WARN", "POL-CONF-100")
                 = (IF BelowThreshold(fields[i].confidence) THEN 1 ELSE 0)
        /\ RuleCount(result.issues, "POL-CONF-100")
              = Cardinality({i \in 1..Len(fields) : BelowThreshold(fields[i].confidence)})
        /\ ( /\ \A f \in RequiredNames : HasKey(fields, f) /\ ~MissingOrEmpty(fields, f)
             /\ \A i \in 1..Len(fields) : ~BelowThreshold(fields[i].confidence)
             /\ Lower(CategoryValue(fields)) \notin {"meals", "meal", "food"} )
           => (result.issues = <<>> /\ result.compliance = "PASS")

\* every field present with a value, confidences 0.75 and above (0.75 itself
\* among them), category Travel: PASS with no issue
C7_Witness ==
    /\ Returned("validate_policy")
    /\ \A f \in RequiredNames : HasKey(fields, f) /\ ~MissingOrEmpty(fields, f)
    /\ \A i \in 1..Len(fields) : ~BelowThreshold(fields[i].confidence)
    /\ \E i \in 1..Len(fields) : fields[i].confidence = Num(75)
    /\ CategoryValue(fields) = "Travel"
    /\ result.compliance = "PASS"

\* the value the meal rule reads: total's value, "0" when there is none,
\* with every comma turned into a dot
MealTotal(fm) ==
    LET raw == IF \E i \in 1..Len(fm) : fm[i].key = "total" /\ fm[i].value # <<>>
               THEN (CHOOSE v \in {fm[i].value : i \in {j \in 1..Len(fm) : fm[j].key = "total"}} : TRUE)[1]
               ELSE "0"
    IN  ParseFloat(ReplaceComma(raw))

IsMealCategory(fm) ==
    \E i \in 1..Len(fm) : /\ fm[i].key = "category"
                          /\ fm[i].value # <<>>
                          /\ Lower(fm[i].value[1]) \in {"meals", "meal", "food"}

\* C8: the meal rule fires only for a meal category; then a total that
\* parses above 20 gives exactly one issue (total, FAIL, POL-LIM-010), one
\* that parses at 20 or below gives no meal issue, one that does not parse
\* gives exactly one issue (total, WARN, POL-PARSE-101); the two rules never
\* appear together, and neither appears for another category.
C8_MealLimit ==
    Returned("validate_policy") =>
        LET lim   == RuleCount(result.issues, "POL-LIM-010")
            parse == RuleCount(result.issues, "POL-PARSE-101")
            total == MealTotal(fields)
        IN  /\ lim = IssueCount(result.issues, "total", "FAIL", "POL-LIM-010")
            /\ parse = IssueCount(result.issues, "total", "WARN", "POL-PARSE-101")
            /\ ~(lim > 0 /\ parse > 0)
            /\ ~IsMealCategory(fields) => lim = 0 /\ parse = 0
            /\ (IsMealCategory(fields) /\ total.ok /\ FloatGreater(total, 2000))
                  => lim = 1 /\ parse = 0
            /\ (IsMealCategory(fields) /\ total.ok /\ ~FloatGreater(total, 2000))
                  => lim = 0 /\ parse = 0
            /\ (IsMealCategory(fields) /\ ~total.ok) => lim = 0 /\ parse = 1

\* category FOOD and total "20,01": the comma becomes a dot and the limit is
\* exceeded by one hundredth
C8_Witness ==
    /\ Returned("validate_policy")
    /\ CategoryValue(fields) = "FOOD"
    /\ FieldEntry(fields, "total").value = <<"20,01">>
    /\ RuleCount(result.issues, "POL-LIM-010") = 1

(***************************************************************************)
(* _find_date as a state machine                                           *)
(***************************************************************************)
\* a date-like string: first, separator, middle, separator, last, with gap
\* around each separator, between a prefix and a suffix
DateTexts ==
    {pre \o first \o gap \o sepA \o gap \o mid \o gap \o sepB \o gap \o last \o suf :
        pre \in {"", "Date: ", "x", "7"},
        first \in {"2013", "11", "013"},
        gap \in {"", " "},
        sepA \in {"-", "/", "."},
        mid \in {"11", "1"},
        sepB \in {"-", "/", ":"},
        last \in {"03", "2013", "13", "201", "3"},
        suf \in {"", " 10:30", "5", "\nTotal 5.00"}}
    \cup {"", "no date here", "11/03/2013 then 2013 - 11 - 03",
          "2013-11-03 then 2014 . 01 . 02", "2013 -\n11 - 03"}

InitDate ==
    /\ fn = "_find_date"
    /\ pc = "call"
    /\ text \in DateTexts
    /\ receipt_id = ""
    /\ lines = <<>>
    /\ words = <<>>
    /\ fields = <<>>
    /\ issues = <<>>
    /\ result = <<>>
    /\ NoSubmission

FindDate ==
    /\ fn = "_find_date"
    /\ pc = "call"
    /\ result' = _find_date(text)
    /\ pc' = "return"
    /\ UNCHANGED <<fn, receipt_id, text, lines, words, fields, issues, req, session, db>>

NextDate == FindDate

SpecDate == InitDate /\ [][NextDate]_vars

(***************************************************************************)
(* Claims about _find_date                                                 *)
(***************************************************************************)
\* some YYYY sep MM sep DD in s is written with white space around a separator
HasSpacedVariant(s) ==
    \E i \in 1..Len(s) :
        /\ DateMatchEnd(s, i, 4, TRUE, <<2>>) # 0
        /\ \E k \in i..DateMatchEnd(s, i, 4, TRUE, <<2>>) : IsSpace(Char(s, k))

\* C10: a text with an un-spaced YYYY[sep]MM[sep]DD and no spaced variant
\* yields that date with confidence 0.75, and confidence 0.8 is returned only
\* when the matched date is written in the spaced form.
C10_UnspacedIsoDate ==
    Returned("_find_date") =>
        /\ (IsoDateSearch(text) # <<>> /\ ~HasSpacedVariant(text))
              => result = <<IsoDateSearch(text)[1], 75>>
        /\ result[2] = 80
              => \E k \in 1..Len(SpacedDateSearch(text)[1]) :
                    IsSpace(Char(SpacedDateSearch(text)[1], k))

(***************************************************************************)
(* _find_total as a state machine                                          *)
(***************************************************************************)
MaxLines == 3

\* the lines a receipt is made of
TotalLines ==
    {"Sub Total 170.00", "Tax 21.00", "Total 31.44", "TOTAL 191,50",
     "Subtotal 13.00", "Tax 2.10", "Total 16.10", "Amount Due 192.00",
     "Balance Due 22.47", "Coffee 3.50 x2 7.00", "Total", "Thank you",
     "Total 2 x 4.25 8.50"}

\* n copies of a line
Repeat(line, n) == [i \in 1..n |-> line]

\* a receipt of up to MaxLines lines, or a long one: an amount, then
\* LAST_N_LINES - 1 lines without one, then at most one more line
TotalDocs ==
    SeqsUpTo(TotalLines, MaxLines)
    \cup {<<"Espresso 999.00">> \o Repeat("Thank you", LAST_N_LINES - 1) \o d :
             d \in SeqsUpTo(TotalLines, 1)}

InitTotal ==
    /\ fn = "_find_total"
    /\ pc = "call"
    /\ lines \in TotalDocs
    /\ receipt_id = ""
    /\ text = ""
    /\ words = <<>>
    /\ fields = <<>>
    /\ issues = <<>>
    /\ result = <<>>
    /\ NoSubmission

FindTotal ==
    /\ fn = "_find_total"
    /\ pc = "call"
    /\ result' = _find_total(lines)
    /\ pc' = "return"
    /\ UNCHANGED <<fn, receipt_id, text, lines, words, fields, issues, req, session, db>>

NextTotal == FindTotal

SpecTotal == InitTotal /\ [][NextTotal]_vars

(***************************************************************************)
(* Claims about _find_total                                                *)
(***************************************************************************)
ReceiptOfC2 == <<"Sub Total 170.00", "Tax 21.00", "Total 31.44">>

\* C2 as stated: for the lines "Sub Total 170.00", "Tax 21.00",
\* "Total 31.44", _find_total returns ("191.44", 0.7).
C2_AsStated ==
    (Returned("_find_total") /\ lines = ReceiptOfC2) => result = <<"191.44", 70>>

\* C2 as amended: for these lines _find_total returns the computed sum of
\* subtotal and tax, ("191.00", 0.7).
C2_ReconciledTotal ==
    (Returned("_find_total") /\ lines = ReceiptOfC2) => result = <<"191.00", 70>>

\* _find_total has returned for the three lines of C2, with the subtotal,
\* the tax and the misread total all found
C2_Witness ==
    /\ Returned("_find_total")
    /\ lines = ReceiptOfC2
    /\ FoundSubtotal(lines) = <<"170.00">>
    /\ FoundTax(lines) = <<"21.00">>
    /\ FoundTotal(lines) = <<"31.44">>
    /\ result[2] = 70

\* the amount "d+.dd" in hundredths
Hundredths(amount) ==
    100 * DigitsToInt(SubSeq(amount, 1, Len(amount) - 3))
    + DigitsToInt(SubSeq(amount, Len(amount) - 1, Len(amount)))

\* digits, a dot, two digits
TwoDecimals(v) ==
    /\ Len(v) >= 4
    /\ Char(v, Len(v) - 2) = "."
    /\ AllDigits(SubSeq(v, 1, Len(v) - 3))
    /\ AllDigits(SubSeq(v, Len(v) - 1, Len(v)))

\* C3: when a subtotal and a tax are found, with expected = subtotal + tax:
\* a found total more than 1.0 away from expected gives (expected, 0.7), a
\* found total within 1.0 of expected gives (total, 0.8), no total gives
\* (expected, 0.65); the value has exactly two decimals.
C3_Reconciliation ==
    (Returned("_find_total") /\ FoundSubtotal(lines) # <<>> /\ FoundTax(lines) # <<>>) =>
        LET expected == Hundredths(FoundSubtotal(lines)[1]) + Hundredths(FoundTax(lines)[1])
            total    == Hundredths(FoundTotal(lines)[1])
            away     == IF total >= expected THEN total - expected ELSE expected - total
        IN  /\ TwoDecimals(result[1])
            /\ (FoundTotal(lines) # <<>> /\ away > 100)
                  => result = <<Format2f(expected), 70>>
            /\ (FoundTotal(lines) # <<>> /\ away <= 100)
                  => result = <<Format2f(total), 80>>
            /\ FoundTotal(lines) = <<>> => result = <<Format2f(expected), 65>>

\* the lines that contain the keyword (whatever the case), not the avoided
\* word ("" for none), and at least one amount
KeywordLines(ls, keyword, avoided) ==
    {k \in 1..Len(ls) :
        /\ Contains(keyword, Lower(ls[k]))
        /\ avoided # "" => ~Contains(avoided, Lower(ls[k]))
        /\ AmountMatches(ReplaceComma(ls[k])) # <<>>}

\* the last amount on the bottom-most of these lines, in hundredths
BottomAmount(ls, at) ==
    LET k  == CHOOSE a \in at : \A b \in at : b <= a
        ms == AmountMatches(ReplaceComma(ls[k]))
    IN  Hundredths(ms[Len(ms)])

\* every amount on the last 30 lines, in hundredths
AmountsNearBottom(ls) ==
    UNION {LET ms == AmountMatches(ReplaceComma(ls[k]))
           IN  {Hundredths(ms[i]) : i \in 1..Len(ms)} :
              k \in {a \in 1..Len(ls) : a > Len(ls) - 30}}

\* a subtotal and a tax are both found
PairFound(ls) == FoundSubtotal(ls) # <<>> /\ FoundTax(ls) # <<>>

\* C11: when no subtotal+tax pair is found, the keywords are tried in
\* priority order ("total" on a line without "sub", then "amount due", then
\* "balance due"), each from the bottom line up, taking the last amount on
\* the line, a later keyword only when every earlier one gave no amount; the
\* amount found is returned with confidence 0.8; when no keyword gives one,
\* the maximum amount of the last 30 lines is returned with confidence 0.5;
\* with no amount at all the result is ("", 0.3).
C11_KeywordPriority ==
    (Returned("_find_total") /\ ~PairFound(lines)) =>
        LET byTotal   == KeywordLines(lines, "total", "sub")
            byAmount  == KeywordLines(lines, "amount due", "")
            byBalance == KeywordLines(lines, "balance due", "")
            near      == AmountsNearBottom(lines)
        IN  result =
              IF byTotal # {} THEN <<Format2f(BottomAmount(lines, byTotal)), 80>>
              ELSE IF byAmount # {} THEN <<Format2f(BottomAmount(lines, byAmount)), 80>>
              ELSE IF byBalance # {} THEN <<Format2f(BottomAmount(lines, byBalance)), 80>>
              ELSE IF near # {}
                   THEN <<Format2f(CHOOSE x \in near : \A y \in near : y <= x), 50>>
              ELSE <<"", 30>>

\* the bottom line says "Total" without an amount and "Balance Due" stands
\* below "Amount Due": the amount due is returned
C11_Witness ==
    /\ Returned("_find_total")
    /\ lines = <<"Amount Due 192.00", "Balance Due 22.47", "Total">>
    /\ ~PairFound(lines)
    /\ KeywordLines(lines, "total", "sub") = {}
    /\ result = <<"192.00", 80>>

(***************************************************************************)
(* _find_merchant as a state machine                                       *)
(***************************************************************************)
MaxMerchantLines == 2

MaxWords == 2

MerchantLines ==
    {"INVOICE #12", "12 Main St 560001", "12.50",
     "#1 Joe's Diner & Bar Ltd", " ACME   Store "}

\* a document of up to MaxMerchantLines lines, or MERCHANT_SCAN_LINES - 1
\* noise lines followed by a last scanned line and a first line out of reach
MerchantDocs ==
    SeqsUpTo(MerchantLines, MaxMerchantLines)
    \cup {Repeat("Customer Copy", MERCHANT_SCAN_LINES - 1) \o d :
             d \in SeqsUpTo(MerchantLines, 2)}

OcrWords ==
    {[text |-> "ACME", conf |-> 90], [text |-> "store", conf |-> 67],
     [text |-> "Joe's", conf |-> 30], [text |-> "acme", conf |-> 9500],
     [text |-> "DINER", conf |-> -100]}

WordLists == SeqsUpTo(OcrWords, MaxWords)

InitMerchant ==
    /\ fn = "_find_merchant"
    /\ pc = "call"
    /\ lines \in MerchantDocs
    /\ words \in WordLists
    /\ receipt_id = ""
    /\ text = ""
    /\ fields = <<>>
    /\ issues = <<>>
    /\ result = <<>>
    /\ NoSubmission

FindMerchant ==
    /\ fn = "_find_merchant"
    /\ pc = "call"
    /\ result' = _find_merchant(lines, words)
    /\ pc' = "return"
    /\ UNCHANGED <<fn, receipt_id, text, lines, words, fields, issues, req, session, db>>

NextMerchant == FindMerchant

SpecMerchant == InitMerchant /\ [][NextMerchant]_vars

(***************************************************************************)
(* Claims about _find_merchant                                             *)
(***************************************************************************)
\* the line is a candidate: cleaned, it is not empty, not noise, not
\* address-like (6 digits or more in more than 8 characters) and has a letter
Survives(line) ==
    LET l == _clean_line(line)
    IN  /\ l # ""
        /\ ~_is_noise_line(l)
        /\ ~(DigitCount(l) >= 6 /\ Len(l) > 8)
        /\ HasLetter(l)

\* the candidates among the first 12 lines
Survivors(ls) == {k \in 1..Len(ls) : k <= 12 /\ Survives(ls[k])}

FirstSurvivor(ls) == CHOOSE k \in Survivors(ls) : \A j \in Survivors(ls) : k <= j

\* the first candidate, cleaned, from its first letter on
MerchantName(ls) == Strip(StripLeadingNonLetters(_clean_line(ls[FirstSurvivor(ls)])))

\* the Confidence Estimator on the first 4 tokens of the name, brought into
\* [0.4, 0.95]
ClampedEstimate(ls, ws) ==
    LET est == _avg_conf(ws, Take(Split(MerchantName(ls)), 4))
    IN  IF est.num < 40 * est.den THEN [num |-> 40, den |-> 1]
        ELSE IF est.num > 95 * est.den THEN [num |-> 95, den |-> 1]
        ELSE est

\* the fallback: no candidate among the first 12 lines
FallsBack ==
    Survivors(lines) = {} => result = <<IF lines = <<>> THEN "" ELSE lines[1], 40>>

\* C9 as stated: with no candidate among the first 12 lines the result is
\* the first line (or "") with confidence 0.4; otherwise it is the first
\* candidate from its first letter on, and its confidence is the estimator's
\* value for its first 4 tokens clamped to [0.4, 0.95].
C9_AsStated ==
    Returned("_find_merchant") =>
        /\ FallsBack
        /\ Survivors(lines) # {} =>
              /\ result[1] = MerchantName(lines)
              /\ result[2] * ClampedEstimate(lines, words).den
                    = ClampedEstimate(lines, words).num

\* C9 as amended: the same, the confidence being the clamped estimate
\* rounded to two decimals (at most half a hundredth away from it).
C9_MerchantRounded ==
    Returned("_find_merchant") =>
        /\ FallsBack
        /\ Survivors(lines) # {} =>
              LET c    == ClampedEstimate(lines, words)
                  away == result[2] * c.den - c.num
              IN  /\ result[1] = MerchantName(lines)
                  /\ 2 * away <= c.den
                  /\ 2 * away >= 0 - c.den

\* the first candidate is line 12, " ACME   Store ", cleaned to "ACME Store";
\* its words average (0.90 + 0.67) / 2 = 0.785, returned as 0.79
C9_Witness ==
    /\ Returned("_find_merchant")
    /\ Survivors(lines) = {12}
    /\ result[1] = "ACME Store"
    /\ ClampedEstimate(lines, words) = [num |-> 157, den |-> 2]
    /\ result[2] = 79

(***************************************************************************)
(* receipt_parser.py: _find_currency and parse_receipt_fields              *)
(***************************************************************************)
\* CURRENCY_REGEX, its alternatives in order
CURRENCY_TOKENS == <<"EUR", "€", "USD", "$", "GBP", "£", "INR", "₹">>

\* the alternatives of CURRENCY_REGEX that match at position i
CurrencyAt(s, i) ==
    {k \in 1..Len(CURRENCY_TOKENS) :
        /\ i + Len(CURRENCY_TOKENS[k]) - 1 <= Len(s)
        /\ SubSeq(s, i, i + Len(CURRENCY_TOKENS[k]) - 1) = CURRENCY_TOKENS[k]}

\* re.search: the leftmost position with a match, there the first alternative
_find_currency(s) ==
    LET at == {i \in 1..Len(s) : CurrencyAt(s, i) # {}}
    IN  IF at = {} THEN <<"EUR", 60>>
        ELSE LET i == CHOOSE a \in at : \A b \in at : a <= b
                 k == CHOOSE a \in CurrencyAt(s, i) : \A b \in CurrencyAt(s, i) : a <= b
             IN  <<CURRENCY_TOKENS[k], 90>>

\* str.splitlines() for texts whose only line break is "\n"; cur is the line
\* read so far
RECURSIVE SplitLinesFrom(_, _, _)
SplitLinesFrom(s, i, cur) ==
    IF i > Len(s) THEN (IF cur = "" THEN <<>> ELSE <<cur>>)
    ELSE IF Char(s, i) = "\n" THEN <<cur>> \o SplitLinesFrom(s, i + 1, "")
    ELSE SplitLinesFrom(s, i + 1, cur \o Char(s, i))

SplitLines(s) == SplitLinesFrom(s, 1, "")

\* raw_lines = [l for l in text.splitlines() if l.strip()]
RawLines(s) == SelectSeq(SplitLines(s), LAMBDA l : Strip(l) # "")

\* lines = [_clean_line(l) for l in raw_lines]
CleanLines(s) == [i \in 1..Len(RawLines(s)) |-> _clean_line(RawLines(s)[i])]

\* uuid.uuid4().hex[:8]: eight hexadecimal digits, any of them
UuidHex8 == {"0a1b2c3d", "ffffffff"}

\* the dict of fields, in insertion order
parse_receipt_fields(rid, t, ws) ==
    LET ls       == CleanLines(t)
        merchant == _find_merchant(ls, ws)
        date     == _find_date(t)
        total    == _find_total(ls)
        cur      == _find_currency(t)
    IN  [receipt_id |-> rid,
         fields |->
           <<[key |-> "merchant", value |-> <<merchant[1]>>,
              confidence |-> Num(merchant[2])],
             [key |-> "date", value |-> <<date[1]>>,
              confidence |-> Num(Round2([num |-> date[2], den |-> 1]))],
             [key |-> "total", value |-> <<total[1]>>,
              confidence |-> Num(Round2([num |-> total[2], den |-> 1]))],
             [key |-> "currency", value |-> <<cur[1]>>,
              confidence |-> Num(Round2([num |-> cur[2], den |-> 1]))],
             [key |-> "category", value |-> <<"Uncategorized">>,
              confidence |-> Num(20)]>>]

(***************************************************************************)
(* parse_receipt_fields as a state machine: the OCR text and words are     *)
(* chosen in the initial state, the call draws the receipt id.             *)
(***************************************************************************)
MaxTextLines == 2

ReceiptLines ==
    {" ACME   Store ", "INVOICE 03/11/2013", "2013 - 11 - 03", "Sub Total 170.00",
     "Tax 21.00", "Total $31.44 USD", "  "}

RECURSIVE JoinLines(_, _)
JoinLines(ls, i) ==
    IF i > Len(ls) THEN ""
    ELSE ls[i] \o (IF i < Len(ls) THEN "\n" ELSE "") \o JoinLines(ls, i + 1)

ReceiptTexts ==
    {JoinLines(d, 1) : d \in SeqsUpTo(ReceiptLines, MaxTextLines)}
    \cup {"ACME Store\n\n12 Main St 560001\n2013-11-03\nSub Total 170.00\nTax 21.00\nTotal 31.44 €\n",
          "ACME Store\n03/11/2013\nTotal $31.44"}

MaxParseWords == 1

ParseWords ==
    {[text |-> "ACME", conf |-> 90], [text |-> "store", conf |-> 67],
     [text |-> "acme", conf |-> 9500], [text |-> "Store", conf |-> -100]}

ParseWordLists ==
    SeqsUpTo(ParseWords, MaxParseWords)
    \cup {<<[text |-> "ACME", conf |-> 90], [text |-> "store", conf |-> 67]>>}

InitParse ==
    /\ fn = "parse_receipt_fields"
    /\ pc = "call"
    /\ text \in ReceiptTexts
    /\ words \in ParseWordLists
    /\ receipt_id = ""
    /\ lines = <<>>
    /\ fields = <<>>
    /\ issues = <<>>
    /\ result = <<>>
    /\ NoSubmission

ParseReceiptFields ==
    /\ fn = "parse_receipt_fields"
    /\ pc = "call"
    /\ \E hex \in UuidHex8 : result' = parse_receipt_fields("r_" \o hex, text, words)
    /\ receipt_id' = result'.receipt_id
    /\ fields' = result'.fields
    /\ lines' = CleanLines(text)
    /\ pc' = "return"
    /\ UNCHANGED <<fn, text, words, issues, req, session, db>>

NextParse == ParseReceiptFields

SpecParse == InitParse /\ [][NextParse]_vars

CANONICAL_KEYS == {"merchant", "date", "total", "currency", "category"}

\* C6: whatever the text and the words (empty text, no words, words whose
\* confidence is outside [0,1]), the field map returned by
\* parse_receipt_fields has exactly the five keys merchant, date, total,
\* currency, category, each value is a string (never null), each confidence
\* is in [0,1], and category is ("Uncategorized", 0.2).
C6_FieldMapTotal ==
    Returned("parse_receipt_fields") =>
        /\ Len(result.fields) = 5
        /\ {result.fields[i].key : i \in 1..Len(result.fields)} = CANONICAL_KEYS
        /\ \A i \in 1..Len(result.fields) :
              /\ result.fields[i].value # <<>>
              /\ result.fields[i].value[1] \in STRING
              /\ result.fields[i].confidence.kind = "number"
              /\ result.fields[i].confidence.n \in 0..100
        /\ FieldEntry(result.fields, "category").value = <<"Uncategorized">>
        /\ FieldEntry(result.fields, "category").confidence = Num(20)

\* a word of confidence 95.0 labels the merchant line: the merchant comes
\* back at the upper limit 0.95, and the text has no date, total or currency
C6_Witness ==
    /\ Returned("parse_receipt_fields")
    /\ text = " ACME   Store "
    /\ words = <<[text |-> "acme", conf |-> 9500]>>
    /\ FieldEntry(result.fields, "merchant").value = <<"ACME Store">>
    /\ FieldEntry(result.fields, "merchant").confidence = Num(95)
    /\ FieldEntry(result.fields, "date").value = <<"">>
    /\ FieldEntry(result.fields, "total").value = <<"">>

(***************************************************************************)
(* api/extract.py and api/policy.py: a receipt is extracted, then the      *)
(* field map it returned is sent unmodified to /policy/validate.  The OCR  *)
(* output (text, words) of an accepted image is chosen in the initial      *)
(* state.                                                                  *)
(***************************************************************************)
InitExtractValidate ==
    /\ fn = "extract_validate"
    /\ pc = "call"
    /\ text \in ReceiptTexts
    /\ words \in ParseWordLists
    /\ receipt_id = ""
    /\ lines = <<>>
    /\ fields = <<>>
    /\ issues = <<>>
    /\ result = <<>>
    /\ NoSubmission

\* extract: fields = parse_receipt_fields(ocr["text"], ocr["words"])
Extract ==
    /\ fn = "extract_validate"
    /\ pc = "call"
    /\ \E hex \in UuidHex8 : receipt_id' = "r_" \o hex
    /\ fields' = parse_receipt_fields(receipt_id', text, words).fields
    /\ pc' = "extracted"
    /\ UNCHANGED <<fn, text, lines, words, issues, result, req, session, db>>

\* validate: validate_policy(req.receipt_id, req.fields, req.user_context or {})
Validate ==
    /\ fn = "extract_validate"
    /\ pc = "extracted"
    /\ result' = validate_policy(receipt_id, fields)
    /\ issues' = result'.issues
    /\ pc' = "return"
    /\ UNCHANGED <<fn, receipt_id, text, lines, words, fields, req, session, db>>

NextExtractValidate == Extract \/ Validate

SpecExtractValidate == InitExtractValidate /\ [][NextExtractValidate]_vars

\* C12: the field map returned by parse_receipt_fields, validated as it
\* is, never gives compliance PASS: the issues always hold a WARN
\* POL-CONF-100 on field category, so compliance is WARN or FAIL.
C12_NeverPass ==
    Returned("extract_validate") =>
        /\ result.compliance # "PASS"
        /\ result.compliance \in {"WARN", "FAIL"}
        /\ IssueCount(result.issues, "category", "WARN", "POL-CONF-100") >= 1

\* a receipt whose merchant, date, total and currency are all found with
\* confidence at least 0.75: the only issue is the one on category
C12_Witness ==
    /\ Returned("extract_validate")
    /\ text = "ACME Store\n03/11/2013\nTotal $31.44"
    /\ \A i \in 1..4 : fields[i].value # <<"">> /\ fields[i].confidence.n >= 75
    /\ Len(result.issues) = 1
    /\ result.issues[1].field = "category"
    /\ result.compliance = "WARN"

(***************************************************************************)
(* api/submission.py: create_submission, with the tables of db/models.py.  *)
(*                                                                         *)
(* db holds what is committed: the rows of submissions and audit_events in *)
(* insertion order, and the number of session.commit() calls so far.       *)
(* session is the open session of the running call with the rows it has    *)
(* flushed but not committed, or <<>> when no session is open.  A request  *)
(* body is a record of the fields of SubmissionRequest.                    *)
(***************************************************************************)
\* json.dumps of a str without characters to escape
JsonString(s) == "\"" \o s \o "\""

\* the items, already dumped, separated by ", "
RECURSIVE JsonJoin(_, _)
JsonJoin(items, i) ==
    IF i > Len(items) THEN ""
    ELSE items[i] \o (IF i < Len(items) THEN ", " ELSE "") \o JsonJoin(items, i + 1)

\* json.dumps of a list, of a dict given as <<key, dumped value>> pairs
JsonList(items) == "[" \o JsonJoin(items, 1) \o "]"

JsonDict(pairs) ==
    "{" \o JsonJoin([i \in 1..Len(pairs) |-> JsonString(pairs[i][1]) \o ": " \o pairs[i][2]], 1)
        \o "}"

\* json.dumps of a float counted in hundredths: 0.8, 0.05, 1.0
JsonFloat(n) ==
    IntToStr(n \div 100) \o "."
      \o (IF n % 10 = 0 THEN IntToStr((n % 100) \div 10)
          ELSE IntToStr((n % 100) \div 10) \o IntToStr(n % 10))

JsonStrings(ss) == JsonList([i \in 1..Len(ss) |-> JsonString(ss[i])])

JsonIssues(iss) ==
    JsonList([i \in 1..Len(iss) |->
                JsonDict(<<<<"field", JsonString(iss[i].field)>>,
                           <<"severity", JsonString(iss[i].severity)>>,
                           <<"rule_id", JsonString(iss[i].rule_id)>>,
                           <<"message", JsonString(iss[i].message)>>>>)])

JsonFields(fm) ==
    JsonDict([i \in 1..Len(fm) |->
                <<fm[i].key,
                  JsonDict(<<<<"value", JsonString(fm[i].value[1])>>,
                             <<"confidence", JsonFloat(fm[i].confidence.n)>>>>)>>])

\* autoincrement primary key of a table whose rows are never deleted
NextId(rows) == Len(rows) + 1

\* SubmissionRecord.__init__, with the id the flush assigns
SubmissionRecord(id, rid, review_state, final_fields, policy_rule_ids, created_at) ==
    [id |-> id, receipt_id |-> rid, review_state |-> review_state,
     final_fields_json |-> JsonFields(final_fields),
     policy_rule_ids_json |-> JsonStrings(policy_rule_ids),
     created_at |-> created_at]

\* AuditEvent.__init__, with the id the insert assigns
AuditEvent(id, submission_id, event_type, payload, created_at) ==
    [id |-> id, submission_id |-> submission_id, event_type |-> event_type,
     payload_json |-> JsonDict(<<<<"issues", JsonIssues(payload.issues)>>,
                                 <<"edits", JsonList(payload.edits)>>,
                                 <<"policy_rule_ids", JsonStrings(payload.policy_rule_ids)>>,
                                 <<"review_state", JsonString(payload.review_state)>>>>),
     created_at |-> created_at]

\* get_session(): a new session, nothing flushed yet
get_session == [flushed |-> <<>>]

\* mutant: the audit event is built before the flush, when submission.id is
\* still None (0 here)
AuditBeforeFlush(submission, r, id, now) ==
    AuditEvent(id, 0, "SUBMITTED",
               [issues |-> r.issues, edits |-> r.edits,
                policy_rule_ids |-> r.policy_rule_ids, review_state |-> r.review_state],
               now)

\* audit = AuditEvent(submission_id=submission.id, event_type="SUBMITTED", ...)
SubmittedAudit(submission, r, id, now) ==
    AuditEvent(id, submission.id, "SUBMITTED",
               [issues |-> r.issues, edits |-> r.edits,
                policy_rule_ids |-> r.policy_rule_ids, review_state |-> r.review_state],
               now)

(***************************************************************************)
(* create_submission as a state machine: requests arrive one after the     *)
(* other; a confirmed one first adds and flushes the submission, then adds *)
(* the audit event and commits.                                            *)
(***************************************************************************)
MaxSubmissions == 2

\* datetime.utcnow().isoformat(): whatever the clock shows
Times == {"2026-01-01T10:00:00.000001", "2026-01-01T10:00:00.000002"}

\* the bodies a client may post; edits are left empty
SubmissionRequests ==
    [receipt_id : {"r_0a1b2c3d"},
     final_fields : {<<[key |-> "total", value |-> <<"25.00">>, confidence |-> Num(80)],
                       [key |-> "category", value |-> <<"Meals">>, confidence |-> Num(5)]>>},
     user_confirmed : BOOLEAN,
     policy_rule_ids : {<<"POL-LIM-010">>},
     issues : {<<>>,
               <<issue("total", "FAIL", "POL-LIM-010",
                       "Meals exceed 20 EUR without justification/attendees.")>>},
     review_state : {"GREEN", "RED"},
     edits : {<<>>}]

InitSubmission ==
    /\ fn = "create_submission"
    /\ pc = "idle"
    /\ receipt_id = ""
    /\ text = ""
    /\ lines = <<>>
    /\ words = <<>>
    /\ fields = <<>>
    /\ issues = <<>>
    /\ result = <<>>
    /\ NoSubmission

\* POST /submission/create with a request body
PostSubmission ==
    /\ fn = "create_submission"
    /\ pc \in {"idle", "return"}
    /\ Len(db.submissions) < MaxSubmissions
    /\ req' \in SubmissionRequests
    /\ result' = <<>>
    /\ pc' = "call"
    /\ UNCHANGED <<fn, receipt_id, text, lines, words, fields, issues, session, db>>

\* if not req.user_confirmed: return BLOCKED
Blocked ==
    /\ fn = "create_submission"
    /\ pc = "call"
    /\ ~req.user_confirmed
    /\ result' = [status |-> "BLOCKED", reason |-> "User confirmation required."]
    /\ pc' = "return"
    /\ UNCHANGED <<fn, receipt_id, text, lines, words, fields, issues, req, session, db>>

\* session = get_session(); session.add(submission); session.flush()
AddSubmission ==
    /\ fn = "create_submission"
    /\ pc = "call"
    /\ req.user_confirmed
    /\ \E now \in Times :
          session' = [get_session EXCEPT !.flushed =
                        <<SubmissionRecord(NextId(db.submissions), req.receipt_id,
                                           req.review_state, req.final_fields,
                                           req.policy_rule_ids, now)>>]
    /\ pc' = "flushed"
    /\ UNCHANGED <<fn, receipt_id, text, lines, words, fields, issues, result, req, db>>

\* session.add(audit); session.commit(); return SUBMITTED; session.close()
AddAuditAndCommit ==
    /\ fn = "create_submission"
    /\ pc = "flushed"
    /\ \E now \in Times :
          db' = [submissions  |-> db.submissions \o session.flushed,
                 audit_events |-> Append(db.audit_events,
                                         SubmittedAudit(session.flushed[1], req,
                                                        NextId(db.audit_events), now)),
                 commits      |-> db.commits + 1]
    /\ result' = [status |-> "SUBMITTED", submission_id |-> session.flushed[1].id]
    /\ session' = <<>>
    /\ pc' = "return"
    /\ UNCHANGED <<fn, receipt_id, text, lines, words, fields, issues, req>>

NextSubmission == PostSubmission \/ Blocked \/ AddSubmission \/ AddAuditAndCommit

SpecSubmission == InitSubmission /\ [][NextSubmission]_vars

\* the SUBMITTED audit events of a submission
SubmittedEventsOf(s) ==
    {i \in 1..Len(db.audit_events) :
        /\ db.audit_events[i].submission_id = s.id
        /\ db.audit_events[i].event_type = "SUBMITTED"}

\* every committed submission has exactly one SUBMITTED audit event, and
\* every audit event names a committed submission
AuditTrailComplete ==
    /\ \A i \in 1..Len(db.submissions) :
          Cardinality(SubmittedEventsOf(db.submissions[i])) = 1
    /\ \A i \in 1..Len(db.audit_events) :
          \E j \in 1..Len(db.submissions) :
             db.submissions[j].id = db.audit_events[i].submission_id

\* what one step of a call does to the committed rows
CallStep ==
    /\ (pc = "call" /\ ~req.user_confirmed) =>
          (pc' = "return" /\ result'.status = "BLOCKED" /\ db' = db)
    /\ (pc = "call" /\ req.user_confirmed) => (pc' = "flushed" /\ db' = db)
    /\ pc = "flushed" =>
          /\ pc' = "return"
          /\ req.user_confirmed
          /\ db'.commits = db.commits + 1
          /\ Len(db'.submissions) = Len(db.submissions) + 1
          /\ Len(db'.audit_events) = Len(db.audit_events) + 1
          /\ SubSeq(db'.submissions, 1, Len(db.submissions)) = db.submissions
          /\ SubSeq(db'.audit_events, 1, Len(db.audit_events)) = db.audit_events
          /\ LET s == db'.submissions[Len(db'.submissions)]
                 a == db'.audit_events[Len(db'.audit_events)]
             IN  /\ a.event_type = "SUBMITTED"
                 /\ a.submission_id = s.id
                 /\ s.review_state = req.review_state
                 /\ result' = [status |-> "SUBMITTED", submission_id |-> s.id]
    /\ pc \notin {"call", "flushed"} => db' = db

\* C13: over any sequence of create_submission calls, a call that is not
\* user_confirmed returns BLOCKED and persists nothing; a confirmed call
\* persists, in one commit, exactly one SubmissionRecord and one AuditEvent
\* of type SUBMITTED whose submission_id is the record's id; so in every
\* committed state each SubmissionRecord has exactly one SUBMITTED
\* AuditEvent and no AuditEvent names a missing submission, whatever the
\* review_state and the issues.
C13_AuditTrail == [](AuditTrailComplete) /\ [][CallStep]_vars

\* a second submission in review state RED with a FAIL issue has been
\* committed, after one that was blocked or committed before
C13_Witness ==
    /\ fn = "create_submission"
    /\ pc = "return"
    /\ req.review_state = "RED"
    /\ req.issues # <<>>
    /\ result = [status |-> "SUBMITTED", submission_id |-> 2]
    /\ db.commits = 2
    /\ db.audit_events[2].submission_id = 2

=============================================================================
